---- MODULE Spec2Model ----
(***************************************************************************)
(* Model of scripts/validate-frontmatter.py: the frontmatter lint pass     *)
(* over the blog posts.                                                    *)
(*                                                                         *)
(* A document text is a sequence of symbols.  "-", " " and "\n" are the    *)
(* characters the regular expression distinguishes; every other symbol is  *)
(* a word: a maximal run of characters that are neither whitespace nor a   *)
(* hyphen (a YAML key, ":", a YAML scalar or flow collection, body text).  *)
(* A Python value is a record [type, n, s]: n is the integer value of an   *)
(* int or bool and the length of a str, list or dict; s is the content of  *)
(* a str.  The parsed frontmatter additionally carries its items.          *)
(***************************************************************************)
EXTENDS Integers, Sequences, FiniteSets, TLC

\* ------------------------------------------------------------- bounds
\* number of posts the directory walk may yield
MaxFiles == 2

\* ------------------------------------------------------ Python values
PyNone == [type |-> "NoneType", n |-> 0, s |-> ""]
PyTrue == [type |-> "bool", n |-> 1, s |-> ""]
PyFalse == [type |-> "bool", n |-> 0, s |-> ""]
PyInt(i) == [type |-> "int", n |-> i, s |-> ""]
PyStr(str, len) == [type |-> "str", n |-> len, s |-> str]
PyList(len) == [type |-> "list", n |-> len, s |-> ""]
PyDict(len) == [type |-> "dict", n |-> len, s |-> ""]

\* bool(v): None, False, 0, "", [] and {} are falsy
Truthy(v) == v.type # "NoneType" /\ v.n # 0

\* v == True: bool is a subclass of int, so the integer 1 equals True
EqualsTrue(v) == v.type \in {"bool", "int"} /\ v.n = 1

\* isinstance(v, list)
IsList(v) == v.type = "list"

\* ------------------------------------------------------------ symbols
NL == "\n"
SP == " "
HY == "-"

\* \s of the re module, over the symbols of the model
IsSpace(ch) == ch \in {SP, NL}

\* ------------------------------------------------ yaml.safe_load model
\* The scalar and flow-collection words of the model and the Python value
\* the YAML 1.1 resolver of yaml.safe_load gives each.
YamlWords ==
  {"Hello", "''", "Python", "true", "false", "'true'", "1", "0",
   "[]", "[a]", "[a,b]", "[a,b,c]", "[a,b,c,d]", "[a,b,c,d,e]",
   "[a,b,c,d,e,f]", "{}", "{a:b}"}

YamlValue(w) ==
  CASE w = "Hello" -> PyStr("Hello", 5)
    [] w = "''" -> PyStr("", 0)
    [] w = "Python" -> PyStr("Python", 6)
    [] w = "true" -> PyTrue
    [] w = "false" -> PyFalse
    [] w = "'true'" -> PyStr("true", 4)
    [] w = "1" -> PyInt(1)
    [] w = "0" -> PyInt(0)
    [] w = "[]" -> PyList(0)
    [] w = "[a]" -> PyList(1)
    [] w = "[a,b]" -> PyList(2)
    [] w = "[a,b,c]" -> PyList(3)
    [] w = "[a,b,c,d]" -> PyList(4)
    [] w = "[a,b,c,d,e]" -> PyList(5)
    [] w = "[a,b,c,d,e,f]" -> PyList(6)
    [] w = "{}" -> PyDict(0)
    [] w = "{a:b}" -> PyDict(1)
    [] OTHER -> PyStr(w, 1)

\* the items of a value that is no dict
NoDictItems == [k \in {} |-> PyNone]

\* the lines of a text: the runs between newlines
RECURSIVE SplitLines(_)
SplitLines(t) ==
  IF \A i \in 1..Len(t) : t[i] # NL
  THEN <<t>>
  ELSE LET k == CHOOSE i \in 1..Len(t) :
                   t[i] = NL /\ \A j \in 1..(i - 1) : t[j] # NL
       IN <<SubSeq(t, 1, k - 1)>> \o SplitLines(SubSeq(t, k + 1, Len(t)))

IsBlankLine(l) == \A i \in 1..Len(l) : l[i] = SP

\* a block-mapping entry: "key:" (null value) or "key: value"
IsEntryLine(l) ==
  \/ Len(l) = 2 /\ ~IsSpace(l[1]) /\ l[1] \notin {HY, ":"} /\ l[2] = ":"
  \/ Len(l) = 4 /\ ~IsSpace(l[1]) /\ l[1] \notin {HY, ":"} /\ l[2] = ":"
                /\ l[3] = SP /\ l[4] \in YamlWords

EntryKey(l) == l[1]
EntryValue(l) == IF Len(l) = 2 THEN PyNone ELSE YamlValue(l[4])

\* a line holding one scalar or flow collection
IsScalarLine(l) == Len(l) = 1 /\ l[1] \in YamlWords

ContentLines(t) == SelectSeq(SplitLines(t), LAMBDA l : ~IsBlankLine(l))

\* yaml.safe_load raises yaml.YAMLError: a word the scanner rejects (an
\* unclosed flow collection such as "[a" is no word of YamlWords), or
\* lines that are neither one block mapping nor one scalar
YamlRaises(t) ==
  LET ls == ContentLines(t)
  IN /\ ls # <<>>
     /\ ~(\A i \in 1..Len(ls) : IsEntryLine(ls[i]))
     /\ ~(Len(ls) = 1 /\ IsScalarLine(ls[1]))

\* the value yaml.safe_load returns when it does not raise: None for an
\* empty stream, a dict for a block mapping (a repeated key keeps its last
\* value), else the scalar or flow collection
YamlLoad(t) ==
  LET ls == ContentLines(t)
      keys == {EntryKey(ls[i]) : i \in 1..Len(ls)}
      last(k) == CHOOSE i \in 1..Len(ls) :
                     /\ EntryKey(ls[i]) = k
                     /\ \A j \in (i + 1)..Len(ls) : EntryKey(ls[j]) # k
  IN IF ls = <<>>
     THEN [v |-> PyNone, items |-> NoDictItems]
     ELSE IF \A i \in 1..Len(ls) : IsEntryLine(ls[i])
     THEN [v |-> PyDict(Cardinality(keys)),
           items |-> [k \in keys |-> EntryValue(ls[last(k)])]]
     ELSE [v |-> YamlValue(ls[1][1]), items |-> NoDictItems]

\* ------------------------------------------------- FRONTMATTER_REGEX
\* ^---\s*\n(.*?)\n---\s*\n  with DOTALL and MULTILINE, applied with match(),
\* so anchored at position 0.  a is the last position of the opening \s*,
\* b the last position of group 1, c the last position of the closing \s*.
StartsWithHyphens(t) ==
  Len(t) >= 3 /\ t[1] = HY /\ t[2] = HY /\ t[3] = HY

OpenEnds(t) ==
  {a \in 3..(Len(t) - 1) :
     (\A i \in 4..a : IsSpace(t[i])) /\ t[a + 1] = NL}

ClosesAt(t, b) ==
  /\ b + 4 <= Len(t)
  /\ t[b + 1] = NL /\ t[b + 2] = HY /\ t[b + 3] = HY /\ t[b + 4] = HY
  /\ \E c \in (b + 4)..(Len(t) - 1) :
        (\A i \in (b + 5)..c : IsSpace(t[i])) /\ t[c + 1] = NL

GroupEnds(t, a) == {b \in (a + 1)..(Len(t) - 4) : ClosesAt(t, b)}

\* FRONTMATTER_REGEX.match(content): the opening \s* is greedy (the longest
\* run that still lets the rest match), group 1 is lazy (the shortest)
RegexMatch(t) ==
  LET good == IF StartsWithHyphens(t)
              THEN {a \in OpenEnds(t) : GroupEnds(t, a) # {}}
              ELSE {}
  IN IF good = {}
     THEN [matched |-> FALSE, group1 |-> <<>>]
     ELSE LET a == CHOOSE x \in good : \A y \in good : y <= x
              b == CHOOSE x \in GroupEnds(t, a) :
                       \A y \in GroupEnds(t, a) : x <= y
          IN [matched |-> TRUE, group1 |-> SubSeq(t, a + 2, b)]

\* ----------------------------------------------- extract_frontmatter
NoFrontmatter == [v |-> PyNone, items |-> NoDictItems]

\* the outcome of extract_frontmatter(content): the exception it raises
\* ("" when it returns) and the value it returns
extract_frontmatter(t) ==
  LET m == RegexMatch(t)
  IN IF ~m.matched
     THEN [raised |-> "", fm |-> NoFrontmatter]
     ELSE IF YamlRaises(m.group1)
     THEN [raised |-> "YAMLError", fm |-> NoFrontmatter]
     ELSE [raised |-> "", fm |-> YamlLoad(m.group1)]

\* ---------------------------------------------- validate_frontmatter
MissingFrontmatter == "Missing frontmatter"
MissingDescription == "Missing or empty 'description'"
MissingTags == "Missing or empty 'tags'"
TagsNotList == "'tags' must be a list"
TagsTooFew == "'tags' must have at least 2 items"
TagsTooMany == "'tags' must have at most 4 items"
InvalidComments == "Missing or invalid 'comments: true'"

\* fm.get(key, default) of a dict
DictGet(fm, key, default) ==
  IF key \in DOMAIN fm.items THEN fm.items[key] ELSE default

\* lines 41-42 without the emptiness test: only `"description" not in fm`
DescriptionRulePresenceOnly(fm) ==
  IF "description" \notin DOMAIN fm.items
  THEN <<MissingDescription>>
  ELSE <<>>

\* lines 41-42
DescriptionRule(fm) ==
  IF "description" \notin DOMAIN fm.items
     \/ ~Truthy(DictGet(fm, "description", PyNone))
  THEN <<MissingDescription>>
  ELSE <<>>

\* lines 44-52 with the lower comparison off by one: len(tags) <= 2
TagsRuleOffByOne(fm) ==
  LET tags == DictGet(fm, "tags", PyList(0))
  IN IF ~Truthy(tags) THEN <<MissingTags>>
     ELSE IF ~IsList(tags) THEN <<TagsNotList>>
     ELSE IF tags.n <= 2 THEN <<TagsTooFew>>
     ELSE IF tags.n > 4 THEN <<TagsTooMany>>
     ELSE <<>>

\* lines 44-52
TagsRule(fm) ==
  LET tags == DictGet(fm, "tags", PyList(0))
  IN IF ~Truthy(tags) THEN <<MissingTags>>
     ELSE IF ~IsList(tags) THEN <<TagsNotList>>
     ELSE IF tags.n < 2 THEN <<TagsTooFew>>
     ELSE IF tags.n > 4 THEN <<TagsTooMany>>
     ELSE <<>>

\* lines 54-55
CommentsRule(fm) ==
  IF ~EqualsTrue(DictGet(fm, "comments", PyNone))
  THEN <<InvalidComments>>
  ELSE <<>>

\* what the field accesses of lines 41-54 raise on a value that is no dict:
\* `"description" not in fm` is a TypeError on an int or bool; on a str or
\* list it evaluates, and fm.get is then an AttributeError
FieldAccessRaises(fm) ==
  IF fm.v.type = "dict" THEN ""
  ELSE IF fm.v.type \in {"int", "bool"} THEN "TypeError"
  ELSE "AttributeError"

\* validate_frontmatter without lines 38-39: `"description" not in None`
\* is a TypeError
validate_frontmatter_without_none_check(t) ==
  LET x == extract_frontmatter(t)
  IN IF x.raised # ""
     THEN [raised |-> x.raised, fm |-> x.fm, errors |-> <<>>]
     ELSE IF x.fm.v = PyNone
     THEN [raised |-> "TypeError", fm |-> x.fm, errors |-> <<>>]
     ELSE IF FieldAccessRaises(x.fm) # ""
     THEN [raised |-> FieldAccessRaises(x.fm), fm |-> x.fm, errors |-> <<>>]
     ELSE [raised |-> "", fm |-> x.fm,
           errors |-> DescriptionRule(x.fm) \o TagsRule(x.fm)
                        \o CommentsRule(x.fm)]

\* the outcome of validate_frontmatter(md_file) on a post with the text t
validate_frontmatter(t) ==
  LET x == extract_frontmatter(t)
  IN IF x.raised # ""
     THEN [raised |-> x.raised, fm |-> x.fm, errors |-> <<>>]
     ELSE IF x.fm.v = PyNone
     THEN [raised |-> "", fm |-> x.fm, errors |-> <<MissingFrontmatter>>]
     ELSE IF FieldAccessRaises(x.fm) # ""
     THEN [raised |-> FieldAccessRaises(x.fm), fm |-> x.fm, errors |-> <<>>]
     ELSE [raised |-> "", fm |-> x.fm,
           errors |-> DescriptionRule(x.fm) \o TagsRule(x.fm)
                        \o CommentsRule(x.fm)]

\* ------------------------------------------------- the posts on disk
\* docs/blog/posts/**/*.md: the texts a post may hold.  A text is written
\* as its lines; the last line ends with a newline or at end of file.
RECURSIVE JoinLines(_)
JoinLines(ls) ==
  IF ls = <<>> THEN <<>>
  ELSE IF Len(ls) = 1 THEN ls[1]
  ELSE ls[1] \o <<NL>> \o JoinLines(Tail(ls))

TextOf(ls, newlineAtEnd) ==
  JoinLines(ls) \o (IF newlineAtEnd THEN <<NL>> ELSE <<>>)

Delimiter == <<HY, HY, HY>>
Entry(key, word) == <<key, ":", SP, word>>

\* zero or one line
Opt(S) == {<<>>} \cup {<<l>> : l \in S}

DescriptionLines == {Entry("description", w) : w \in {"Hello", "''"}}
TagsLines ==
  {<<"tags", ":">>}
    \cup {Entry("tags", w) :
            w \in {"[]", "[a]", "[a,b]", "[a,b,c,d]", "[a,b,c,d,e]",
                   "''", "Python", "false", "0", "{a:b}"}}
CommentsLines ==
  {Entry("comments", w) : w \in {"true", "'true'", "1"}}

\* header blocks that are one block mapping
MappingBodies ==
  {d \o g \o c : d \in Opt(DescriptionLines), g \in Opt(TagsLines),
                 c \in Opt(CommentsLines)}

ValidBody ==
  <<Entry("description", "Hello"), Entry("tags", "[a,b]"),
    Entry("comments", "true")>>

\* header blocks that are no mapping: nothing, blank lines, a bare scalar,
\* a top-level sequence, and content YAML rejects
OtherBodies ==
  {<<>>, <<<<>>>>, <<<<SP>>>>, <<<<>>, <<>>>>,
   <<<<"Hello">>>>, <<<<"''">>>>, <<<<"1">>>>, <<<<"false">>>>,
   <<<<"[a,b]">>>>, <<<<"[a">>>>, <<Entry("tags", "[a")>>,
   <<<<"Hello">>, Entry("comments", "true")>>}

\* well-delimited posts
DelimitedPosts ==
  {TextOf(<<Delimiter>> \o b \o <<Delimiter, <<"text">>>>, TRUE) :
     b \in MappingBodies \cup OtherBodies}

\* posts whose delimiters vary: text or blanks before the first delimiter,
\* blanks after the hyphens, a fourth hyphen, no closing delimiter, and the
\* end of the file right after the closing delimiter
FirstLines ==
  {<<Delimiter \o <<SP>>>>, <<<<HY>> \o Delimiter>>, <<<<SP>> \o Delimiter>>,
   <<<<>>, Delimiter>>, <<<<"text">>>>}
ClosingLines ==
  {<<>>, <<Delimiter>>, <<Delimiter \o <<SP>>>>, <<<<HY>> \o Delimiter>>}
Endings ==
  {[rest |-> <<>>, nl |-> TRUE], [rest |-> <<>>, nl |-> FALSE],
   [rest |-> <<<<"text">>>>, nl |-> TRUE]}

VariedPosts ==
  {TextOf(<<Delimiter>> \o b \o c \o e.rest, e.nl) :
     b \in {<<>>, <<<<>>>>, ValidBody}, c \in ClosingLines, e \in Endings}
    \cup {TextOf(f \o ValidBody \o c \o <<<<"text">>>>, TRUE) :
            f \in FirstLines, c \in ClosingLines}

Posts == DelimitedPosts \cup VariedPosts

\* ------------------------------------------------------------- state
VARIABLES
  pc,           \* "loop", "validate", "done" or "crashed"
  md_file,      \* the number of the post the walk yielded last
  content,      \* the text of that post
  fm,           \* what extract_frontmatter returned for it
  file_errors,  \* what validate_frontmatter returned for it
  returned,     \* file_errors of every post validated so far, in order
  errors,       \* main's report: a block per post with violations
  output,       \* the lines printed
  exit_code     \* -1 while running

vars ==
  <<pc, md_file, content, fm, file_errors, returned, errors, output,
    exit_code>>

Init ==
  /\ pc = "loop"
  /\ md_file = 0
  /\ content = <<>>
  /\ fm = NoFrontmatter
  /\ file_errors = <<>>
  /\ returned = <<>>
  /\ errors = <<>>
  /\ output = <<>>
  /\ exit_code = -1

\* line 64: the walk yields the next post
rglob_next ==
  /\ pc = "loop"
  /\ md_file < MaxFiles
  /\ \E t \in Posts : content' = t
  /\ md_file' = md_file + 1
  /\ pc' = "validate"
  /\ fm' = NoFrontmatter
  /\ file_errors' = <<>>
  /\ UNCHANGED <<returned, errors, output, exit_code>>

\* lines 66-69: the block of a post, "\n{md_file}:\n" and a bullet per error
ReportBlock(file, errs) == [path |-> file, bullets |-> errs]

\* lines 66-69 without the test of line 66
AppendErrorsAlways(errs, file, ferrs) ==
  Append(errs, ReportBlock(file, ferrs))

AppendErrors(errs, file, ferrs) ==
  IF ferrs # <<>> THEN Append(errs, ReportBlock(file, ferrs)) ELSE errs

\* lines 65-69: one iteration of the loop; an exception validate_frontmatter
\* raises is caught nowhere and ends the process with a traceback
loop_body ==
  /\ pc = "validate"
  /\ LET r == validate_frontmatter(content)
     IN /\ fm' = r.fm
        /\ IF r.raised # ""
           THEN /\ pc' = "crashed"
                /\ output' = Append(output, "Traceback: " \o r.raised)
                /\ exit_code' = 1
                /\ UNCHANGED <<file_errors, returned, errors>>
           ELSE /\ pc' = "loop"
                /\ file_errors' = r.errors
                /\ returned' = Append(returned, r.errors)
                /\ errors' = AppendErrors(errors, md_file, r.errors)
                /\ UNCHANGED <<output, exit_code>>
  /\ UNCHANGED <<md_file, content>>

FailureBanner == "Frontmatter validation failed:"
SuccessLine == "All blog post frontmatter is valid."

\* the exit status of lines 71-76
ExitCode(errs) == IF errs # <<>> THEN 1 ELSE 0

ReportLines(errs) ==
  IF errs # <<>> THEN <<FailureBanner, "blocks">> ELSE <<SuccessLine>>

\* lines 71-76: the walk is exhausted (the directory holds any number of
\* posts up to the bound)
report ==
  /\ pc = "loop"
  /\ pc' = "done"
  /\ output' = output \o ReportLines(errors)
  /\ exit_code' = ExitCode(errors)
  /\ UNCHANGED <<md_file, content, fm, file_errors, returned, errors>>

Next == rglob_next \/ loop_body \/ report

Spec == Init /\ [][Next]_vars

\* ====================================================== properties
\* vocabulary of the properties, stated on the text and the values
Range(q) == {q[i] : i \in 1..Len(q)}

\* the lines of a file: a newline at the end of the text ends the last line
FileLines(t) ==
  IF t = <<>> THEN <<>>
  ELSE IF t[Len(t)] = NL THEN SplitLines(SubSeq(t, 1, Len(t) - 1))
  ELSE SplitLines(t)

\* a line of three hyphens, trailing blanks allowed
IsDelimiterLine(l) ==
  /\ Len(l) >= 3
  /\ SubSeq(l, 1, 3) = Delimiter
  /\ \A i \in 4..Len(l) : l[i] = SP

\* the text starts with a delimiter line and has a later delimiter line
HasDelimiterPair(t) ==
  LET ls == FileLines(t)
  IN /\ Len(ls) >= 2
     /\ IsDelimiterLine(ls[1])
     /\ \E k \in 2..Len(ls) : IsDelimiterLine(ls[k])

\* the same, each delimiter line being exactly three hyphens
HasExactDelimiterPair(t) ==
  LET ls == FileLines(t)
  IN /\ Len(ls) >= 2
     /\ ls[1] = Delimiter
     /\ \E k \in 2..Len(ls) : ls[k] = Delimiter

\* a header block with no fields: two delimiter lines, nothing or blank
\* lines between them
HasEmptyHeaderBlock(t) ==
  LET ls == FileLines(t)
  IN /\ Len(ls) >= 2
     /\ ls[1] = Delimiter
     /\ \E k \in 2..Len(ls) :
          ls[k] = Delimiter /\ \A j \in 2..(k - 1) : IsBlankLine(ls[j])

\* validate_frontmatter was called on the post in content and is over
Called == md_file > 0 /\ pc # "validate"
\* ... and it returned
Returned == md_file > 0 /\ pc \in {"loop", "done"}

IsMapping(x) == x.v.type = "dict"
Has(x, key) == key \in DOMAIN x.items

TagsMessages == {MissingTags, TagsNotList, TagsTooFew, TagsTooMany}
TagsViolations(errs) == SelectSeq(errs, LAMBDA e : e \in TagsMessages)

\* C1: a post whose text does not start with the delimiter pair gets exactly
\* the one violation "Missing frontmatter"
C1_NoHeaderIsMissingFrontmatter ==
  (Called /\ ~HasDelimiterPair(content))
    => (pc # "crashed" /\ file_errors = <<MissingFrontmatter>>)

C1_Witness ==
  /\ Returned
  /\ ~HasDelimiterPair(content)
  /\ Len(content) > 3
  /\ content[1] = SP
  /\ file_errors = <<MissingFrontmatter>>

\* C2: for a parsed mapping the comments violation is absent exactly when
\* 'comments' is present and is the boolean true
C2_CommentsOnlyBooleanTrue ==
  (Returned /\ IsMapping(fm))
    => ((InvalidComments \notin Range(file_errors))
          <=> (Has(fm, "comments") /\ fm.items["comments"] = PyTrue))

\* C3: with 'tags' absent or a sequence there is at most one tags violation
\* and its length decides it: none or 0 items "Missing or empty", 1 item "at
\* least 2", 5 or more "at most 4", 2 to 4 items no violation
C3_TagsByLength ==
  (Returned /\ IsMapping(fm) /\ (Has(fm, "tags") => IsList(fm.items["tags"])))
    => LET len == IF Has(fm, "tags") THEN fm.items["tags"].n ELSE 0
       IN TagsViolations(file_errors) =
            (IF len = 0 THEN <<MissingTags>>
             ELSE IF len = 1 THEN <<TagsTooFew>>
             ELSE IF len >= 5 THEN <<TagsTooMany>>
             ELSE <<>>)

C3_Witness ==
  /\ Returned /\ IsMapping(fm) /\ Has(fm, "tags")
  /\ IsList(fm.items["tags"]) /\ fm.items["tags"].n = 5
  /\ TagsViolations(file_errors) = <<TagsTooMany>>

\* C4: 'tags' present with a value that is no sequence (a string, a boolean,
\* a number, a mapping) gives exactly "'tags' must be a list"
C4_NonSequenceTagsMustBeList ==
  (Returned /\ IsMapping(fm) /\ Has(fm, "tags")
     /\ fm.items["tags"].type \in {"str", "bool", "int", "dict"})
    => TagsViolations(file_errors) = <<TagsNotList>>

\* C5: a post whose header block is present and fails to parse does not end
\* the run; its violation list is ["Missing frontmatter"]
C5_MalformedHeaderIsMissingFrontmatter ==
  (Called /\ RegexMatch(content).matched
     /\ YamlRaises(RegexMatch(content).group1))
    => (pc # "crashed" /\ file_errors = <<MissingFrontmatter>>)

\* C6: when the sweep finishes the report holds a block for exactly the
\* posts whose violation list is not empty, and the exit code is 0 with the
\* single success line exactly when the report is empty; otherwise the
\* failure banner is printed and the exit code is not 0
C6_ReportAndExit ==
  pc = "done"
    => /\ {e.path : e \in Range(errors)}
            = {i \in 1..Len(returned) : returned[i] # <<>>}
       /\ Len(errors) = Cardinality({e.path : e \in Range(errors)})
       /\ \A e \in Range(errors) : e.bullets = returned[e.path]
       /\ \A j, k \in 1..Len(errors) :
            j < k => errors[j].path < errors[k].path
       /\ (exit_code = 0 /\ output = <<SuccessLine>>) <=> (errors = <<>>)
       /\ errors # <<>> => (exit_code # 0 /\ output[1] = FailureBanner)

C6_Witness ==
  /\ pc = "done"
  /\ Len(returned) = 2
  /\ returned[1] = <<>>
  /\ returned[2] = <<MissingFrontmatter>>
  /\ Len(errors) = 1
  /\ exit_code = 1

\* C7: a header block that is present but empty is not treated as absent:
\* its violations are those of an empty mapping
C7_EmptyHeaderIsNotAbsent ==
  (Called /\ HasEmptyHeaderBlock(content))
    => /\ pc # "crashed"
       /\ file_errors = <<MissingDescription, MissingTags, InvalidComments>>

\* C8: a header block is detected exactly when the text begins with a line
\* of exactly three hyphens and a later line is exactly three hyphens
C8_DetectedIffDelimiterPair ==
  Called
    => (RegexMatch(content).matched <=> HasExactDelimiterPair(content))

\* C9: for a parsed mapping the violations come in the order description,
\* tags, comments, each at most once, and the description violation is there
\* when 'description' is absent or the empty string and not there when it is
\* a non-empty string, whatever the other fields are
RuleOrder ==
  <<MissingDescription, MissingTags, TagsNotList, TagsTooFew, TagsTooMany,
    InvalidComments>>

C9_RulesAccumulateInOrder ==
  (Returned /\ IsMapping(fm))
    => /\ file_errors
            = SelectSeq(RuleOrder, LAMBDA m : m \in Range(file_errors))
       /\ Len(TagsViolations(file_errors)) <= 1
       /\ (~Has(fm, "description")
             \/ fm.items["description"] = PyStr("", 0))
            => MissingDescription \in Range(file_errors)
       /\ (Has(fm, "description") /\ fm.items["description"].type = "str"
             /\ fm.items["description"].n > 0)
            => MissingDescription \notin Range(file_errors)

C9_Witness ==
  /\ Returned /\ IsMapping(fm)
  /\ Has(fm, "description") /\ fm.items["description"] = PyStr("", 0)
  /\ file_errors = <<MissingDescription, TagsTooFew, InvalidComments>>

\* C10: validate_frontmatter returns a violation list for every value the
\* extractor returns from a detected header block, a non-mapping included
C10_NeverFailsOnExtractedValue ==
  (Called /\ RegexMatch(content).matched
     /\ ~YamlRaises(RegexMatch(content).group1))
    => pc # "crashed"

====
